---- MODULE Spec2Model ----
(***************************************************************************)
(* Model of amaze's robot build-data codec (simu/robot.py), the robot      *)
(* point-mass kinematics (simu/robot.py) and the controller registry and   *)
(* archive persistence (simu/controllers/control.py, with the SB3 wrapper  *)
(* of extensions/sb3/controller.py as one registered kind).                *)
(*                                                                         *)
(* Python values are modelled as follows:                                  *)
(*   str            a sequence of one-character strings                    *)
(*   None / value   the empty tuple <<>> / the one-element tuple <<v>>     *)
(*   dict           the sequence of its <<key, value>> items, in           *)
(*                  insertion order, keys unique                           *)
(*   float          an exact rational <<num, den>>, den > 0, lowest terms  *)
(***************************************************************************)
EXTENDS Integers, Sequences, FiniteSets, TLC

VARIABLES
    \* ---- build-data codec (Robot.BuildData) ----
    bd,        \* the BuildData last constructed: <<>> or <<record>>
    text,      \* the code string last produced or parsed
    orig,      \* the BuildData to_string was applied to, while text is its code
    cop,       \* the codec operation last executed
    cerr,      \* its outcome: "ok" or the exception raised
    carg,      \* the controller (type) handed to that operation, if any
    cret,      \* what check_types returned: <<>> or <<TRUE>>
    \* ---- kinematics (Robot) ----
    pos, prev_cell, vel, acc, reward,   \* the Robot's fields (<<>> is None)
    kret,      \* value returned by the last next_position: <<>> or <<Pos>>
    kerr,      \* outcome of the last Robot call
    kop,       \* the Robot method last executed
    calls,     \* number of next_position calls since the last reset
    run,       \* history of the calls since reset: action, dt, speeds
    \* ---- registry and persistence (control.py) ----
    registry,  \* CONTROLLERS: dict of kind name -> class
    ctl,       \* the controller object at hand: <<>> or <<record>>
    fs,        \* file system: path -> <<>> or <<archive>>
    pop,       \* the control.py function last executed
    perr,      \* its outcome
    pret,      \* its return value
    parg,      \* the path and infos arguments of that save or load
    built,     \* controller_factory calls that returned a controller
    saves,     \* save() calls that wrote an archive
    saved      \* the save() call that wrote the archive now on disk

codecVars == <<bd, text, orig, cop, cerr, carg, cret>>
kinVars   == <<pos, prev_cell, vel, acc, reward, kret, kerr, kop, calls, run>>
ctlVars   == <<registry, ctl, fs, pop, perr, pret, parg, built, saves, saved>>
vars      == <<codecVars, kinVars, ctlVars>>

(***************************************************************************)
(* Bounds                                                                  *)
(***************************************************************************)
MaxLen == 3        \* longest code string handed to from_string
MaxCalls == 3      \* next_position calls per episode, arbitrary actions
MaxSteps == 5      \* next_position calls per episode, sustained action
MaxInfoKeys == 1   \* keys of a caller-supplied infos mapping
MaxBuilt == 1      \* controllers built by controller_factory per session
MaxSaves == 1      \* archives written per session

(***************************************************************************)
(* Generic helpers: Python str, int and dict                               *)
(***************************************************************************)
None == <<>>
Some(v) == <<v>>

Range(s) == {s[k] : k \in DOMAIN s}

Digits == <<"0", "1", "2", "3", "4", "5", "6", "7", "8", "9">>

isdigit(c) == \E k \in DOMAIN Digits : Digits[k] = c

Letters == {"D", "C", "H", "x"}

isalpha(c) == c \in Letters

DigitValue(c) == (CHOOSE k \in DOMAIN Digits : Digits[k] = c) - 1

\* int(s) for a non-empty string of decimal digits
RECURSIVE ParseInt(_)
ParseInt(s) ==
    IF Len(s) = 0 THEN 0
    ELSE 10 * ParseInt(SubSeq(s, 1, Len(s) - 1)) + DigitValue(s[Len(s)])

\* str(n) for an int n
RECURSIVE StrNat(_)
StrNat(n) ==
    IF n < 10 THEN <<Digits[n + 1]>>
    ELSE StrNat(n \div 10) \o <<Digits[(n % 10) + 1]>>

Str(n) == IF n < 0 THEN <<"-">> \o StrNat(0 - n) ELSE StrNat(n)

\* str.lower() on the names used here
Lower(s) ==
    CASE s = "Random" -> "random"
      [] s = "Tabular" -> "tabular"
      [] OTHER -> s

\* dict: keys(), "in", [], item assignment
DictKeys(d) == {d[k][1] : k \in DOMAIN d}

DictHas(d, key) == key \in DictKeys(d)

DictGet(d, key) == d[CHOOSE k \in DOMAIN d : d[k][1] = key][2]

DictSet(d, key, val) ==
    IF DictHas(d, key)
    THEN [k \in DOMAIN d |-> IF d[k][1] = key THEN <<key, val>> ELSE d[k]]
    ELSE Append(d, <<key, val>>)

\* all strings over alphabet A of length at most n
RECURSIVE SeqsUpTo(_, _)
SeqsUpTo(A, n) ==
    IF n = 0 THEN {<<>>}
    ELSE LET shorter == SeqsUpTo(A, n - 1)
         IN  shorter \cup {Append(s, c) : s \in shorter, c \in A}

(***************************************************************************)
(* Robot.BuildData: fields, defaults, string codec                         *)
(***************************************************************************)
InputType == {"DISCRETE", "CONTINUOUS"}
OutputType == {"DISCRETE", "CONTINUOUS"}

DefaultVision == 15

DefaultBuildData ==
    [inputs |-> "DISCRETE", outputs |-> "DISCRETE", vision |-> DefaultVision,
     control |-> "random", control_data |-> <<>>]

\* __post_init__: the controller name is lower-cased
PostInit(b) == [b EXCEPT !.control = Lower(b.control)]

\* i.name[0] for the members of InputType / OutputType
inputs_to_string(i) == IF i = "DISCRETE" THEN "D" ELSE "C"
outputs_to_string(o) == IF o = "DISCRETE" THEN "D" ELSE "C"

\* the inverted tables; a letter outside them is a KeyError
InStringToInput(c) == \E i \in InputType : inputs_to_string(i) = c
string_to_input(c) == CHOOSE i \in InputType : inputs_to_string(i) = c
InStringToOutput(c) == \E o \in OutputType : outputs_to_string(o) = c
string_to_output(c) == CHOOSE o \in OutputType : outputs_to_string(o) = c

\* the shorthand table of from_string
ShorthandInputs(c) == IF c = "D" THEN "DISCRETE" ELSE "CONTINUOUS"
ShorthandOutputs(c) == IF c = "C" THEN "CONTINUOUS" ELSE "DISCRETE"

\* ix = 1 + robot[1].isalpha()  (robot[1] is the second character)
TypeCodeLen(robot) == IF isalpha(robot[2]) THEN 2 ELSE 1

IsHybrid_swapped(i, o) == i = "CONTINUOUS" /\ o = "DISCRETE"

\* bd.inputs == InputType.DISCRETE and bd.outputs == OutputType.CONTINUOUS
IsHybrid(i, o) == i = "DISCRETE" /\ o = "CONTINUOUS"

HasVision_long(i, robot, ix) ==
    i = "CONTINUOUS" /\ ix < Len(robot) /\ Len(robot) > 3

\* bd.inputs is InputType.CONTINUOUS and ix < len(robot) > 2
HasVision(i, robot, ix) ==
    i = "CONTINUOUS" /\ ix < Len(robot) /\ Len(robot) > 2

\* (bd.vision % 2) != 1
IsEven(v) == (v % 2) # 1

Failed(e) == [err |-> e, bd |-> None]

\* the decoding part of from_string, once the three assertions passed
Decode(robot) ==
    LET ix == TypeCodeLen(robot)
        short == ix = 1
        keyOk == short \/ (InStringToInput(robot[1]) /\ InStringToOutput(robot[2]))
        i == IF short THEN ShorthandInputs(robot[1]) ELSE string_to_input(robot[1])
        o == IF short THEN ShorthandOutputs(robot[1]) ELSE string_to_output(robot[2])
        v == ParseInt(SubSeq(robot, ix + 1, Len(robot)))
    IN  IF ~keyOk THEN Failed("KeyError")
        ELSE IF ~short /\ IsHybrid(i, o) THEN Failed("ValueError: hybrid")
        ELSE IF HasVision(i, robot, ix)
        THEN IF IsEven(v) THEN Failed("ValueError: even")
             ELSE [err |-> "ok",
                   bd |-> Some([DefaultBuildData EXCEPT
                                  !.inputs = i, !.outputs = o, !.vision = v])]
        ELSE [err |-> "ok",
              bd |-> Some([DefaultBuildData EXCEPT !.inputs = i, !.outputs = o])]

\* Robot.BuildData.from_string
from_string(robot) ==
    IF Len(robot) < 1 THEN Failed("IndexError")
    ELSE IF robot[1] \notin {"D", "C", "H"} THEN Failed("AssertionError")
    ELSE IF Len(robot) < 2 THEN Failed("IndexError")
    ELSE IF ~(robot[2] \in {"D", "C"} \/ isdigit(robot[2]))
         THEN Failed("AssertionError")
    ELSE IF \E k \in 3..Len(robot) : ~isdigit(robot[k])
         THEN Failed("AssertionError")
    ELSE Decode(robot)

\* Robot.BuildData.to_string
to_string(b) ==
    <<inputs_to_string(b.inputs), outputs_to_string(b.outputs)>>
        \o (IF b.inputs = "CONTINUOUS" THEN Str(b.vision) ELSE <<>>)

\* Robot.BuildData.from_controller; c.inputs_types / c.outputs_types are the
\* lists the controller reports, c.vision is None or Some(v)
from_controller(c) ==
    IF Len(c.inputs_types) > 1 THEN Failed("ValueError: input")
    ELSE IF Len(c.inputs_types) = 0 THEN Failed("IndexError")
    ELSE IF Len(c.outputs_types) > 1 THEN Failed("ValueError: output")
    ELSE IF Len(c.outputs_types) = 0 THEN Failed("IndexError")
    ELSE LET i == c.inputs_types[1]
             o == c.outputs_types[1]
             b == [DefaultBuildData EXCEPT !.inputs = i, !.outputs = o]
         IN  [err |-> "ok",
              bd |-> Some(IF i = "CONTINUOUS" /\ c.vision # None
                          THEN [b EXCEPT !.vision = c.vision[1]]
                          ELSE b)]

(***************************************************************************)
(* Exact rational arithmetic for the float computations                    *)
(***************************************************************************)
Abs(n) == IF n < 0 THEN 0 - n ELSE n

RECURSIVE Gcd(_, _)
Gcd(a, b) == IF b = 0 THEN a ELSE Gcd(b, a % b)

Rat(n, d) ==
    LET g == Gcd(Abs(n), Abs(d))
        s == IF d < 0 THEN 0 - 1 ELSE 1
    IN  <<(s * n) \div g, (s * d) \div g>>

\* sums over the least common denominator
RAdd(p, q) ==
    LET g == Gcd(p[2], q[2])
    IN  Rat(p[1] * (q[2] \div g) + q[1] * (p[2] \div g), (p[2] \div g) * q[2])
RNeg(p) == <<0 - p[1], p[2]>>
RSub(p, q) == RAdd(p, RNeg(q))
RMul(p, q) == Rat(p[1] * q[1], p[2] * q[2])

Floor(p) == p[1] \div p[2]

\* p < q, comparing integer parts and then the reciprocals of the fractional
\* parts, so that no product of a numerator and a denominator is formed
RECURSIVE RLt(_, _)
RLt(p, q) ==
    IF Floor(p) # Floor(q) THEN Floor(p) < Floor(q)
    ELSE LET fp == p[1] % p[2]
             fq == q[1] % q[2]
         IN  IF fq = 0 THEN FALSE
             ELSE IF fp = 0 THEN TRUE
             ELSE RLt(<<q[2], fq>>, <<p[2], fp>>)

RLe(p, q) == ~RLt(q, p)

RMin(p, q) == IF RLt(q, p) THEN q ELSE p

Zero == <<0, 1>>
One == <<1, 1>>

\* Vec / Pos of amaze.simu.pos: pairs of floats
NullVec == <<Zero, Zero>>                                \* Vec.null()
Scale(k, v) == <<RMul(k, v[1]), RMul(k, v[2])>>          \* k * Vec
VAdd(u, v) == <<RAdd(u[1], v[1]), RAdd(u[2], v[2])>>     \* Vec + Vec, Pos + Vec
LengthSq(v) == RAdd(RMul(v[1], v[1]), RMul(v[2], v[2]))  \* Vec.length() ** 2
Aligned(p) == <<Floor(p[1]), Floor(p[2])>>               \* Pos.aligned()

(***************************************************************************)
(* Robot: constants, reset, next_position                                  *)
(***************************************************************************)
INERTIAL_LOSS == <<1, 2>>
ACCELERATION_SCALE == <<1, 2>>

\* min(.01, self.ACCELERATION_SCALE / 2)
SnapThreshold == RMin(<<1, 100>>, RMul(ACCELERATION_SCALE, <<1, 2>>))

\* self.vel.length() < min(.01, self.ACCELERATION_SCALE / 2)
BelowThreshold(v) == RLt(LengthSq(v), RMul(SnapThreshold, SnapThreshold))

ScaledAction_added(action) ==
    VAdd(<<ACCELERATION_SCALE, ACCELERATION_SCALE>>, action)

\* self.ACCELERATION_SCALE * action
ScaledAction(action) == Scale(ACCELERATION_SCALE, action)

Damped_undamped(v, a, dt) == VAdd(v, Scale(dt, a))

\* (1 - self.INERTIAL_LOSS * dt) * self.vel + dt * self.acc
Damped(v, a, dt) ==
    VAdd(Scale(RSub(One, RMul(INERTIAL_LOSS, dt)), v), Scale(dt, a))

\* if self.vel.length() < ...: self.vel = Vec.null()
Snapped(v) == IF BelowThreshold(v) THEN NullVec ELSE v

\* the velocity next_position leaves in self.vel
NextVel(v, action, dt) == Snapped(Damped(v, ScaledAction(action), dt))

\* self.pos + dt * self.vel
Proposed(p, v, dt) == VAdd(p, Scale(dt, v))

\* ---- inputs ----
Positions == {<<<<1, 2>>, <<1, 2>>>>, <<<<7, 2>>, <<5, 4>>>>}

ResetArgs ==
    {[type |-> "Pos", at |-> p] : p \in Positions}
        \cup {[type |-> "tuple", at |-> <<<<1, 2>>, <<1, 2>>>>]}

Actions ==
    {<<Zero, Zero>>, <<One, Zero>>, <<Zero, <<0 - 1, 1>>>>, <<One, One>>,
     <<<<0 - 1, 1>>, One>>}

DTs == {<<1, 2>>, One, <<3, 1>>}

SustainedDTs == {<<1, 100>>, <<1, 2>>, One, <<3, 2>>}

NoRun ==
    [pos0 |-> None, first |-> None, same |-> TRUE, allZero |-> TRUE,
     prev |-> Zero]

\* Robot.reset
Reset(a) ==
    /\ kop' = "reset"
    /\ IF a.type # "Pos"
       THEN /\ kerr' = "AssertionError"
            /\ UNCHANGED <<pos, prev_cell, vel, acc, reward, kret, calls, run>>
       ELSE /\ kerr' = "ok"
            /\ pos' = Some(a.at)
            /\ prev_cell' = Some(Aligned(a.at))
            /\ vel' = Some(NullVec)
            /\ acc' = Some(NullVec)
            /\ reward' = Some(0)
            /\ kret' = None
            /\ calls' = 0
            /\ run' = [NoRun EXCEPT !.pos0 = Some(a.at)]

\* Robot.next_position
NextPosition(action, dt) ==
    /\ kop' = "next_position"
    /\ acc' = Some(ScaledAction(action))
    /\ IF vel = None
       THEN /\ kerr' = "TypeError"
            /\ kret' = None
            /\ UNCHANGED <<pos, prev_cell, vel, reward, calls, run>>
       ELSE /\ kerr' = "ok"
            /\ vel' = Some(NextVel(vel[1], action, dt))
            /\ kret' = Some(Proposed(pos[1], vel'[1], dt))
            /\ calls' = calls + 1
            /\ run' = [run EXCEPT
                         !.first = IF run.first = None
                                   THEN Some(<<action, dt>>) ELSE @,
                         !.same = @ /\ (run.first = None
                                         \/ run.first = Some(<<action, dt>>)),
                         !.allZero = @ /\ action = NullVec,
                         !.prev = LengthSq(vel[1])]
            /\ UNCHANGED <<pos, prev_cell, reward>>

KinReset == \E a \in ResetArgs : Reset(a) /\ UNCHANGED <<codecVars, ctlVars>>

KinStep ==
    /\ calls < MaxCalls
    /\ \E action \in Actions, dt \in DTs : NextPosition(action, dt)
    /\ UNCHANGED <<codecVars, ctlVars>>

\* the caller repeats the action and dt of the episode's first call
KinSustainedStep ==
    /\ calls < MaxSteps
    /\ \E action \in Actions, dt \in SustainedDTs :
          /\ run.first \in {None, Some(<<action, dt>>)}
          /\ NextPosition(action, dt)
    /\ UNCHANGED <<codecVars, ctlVars>>

(***************************************************************************)
(* check_types (control.py) on the capability protocol                     *)
(***************************************************************************)
Supports_any(types, t) == TRUE

\* robot.inputs in controller.inputs_types()
Supports(types, t) == t \in Range(types)

\* check_types: True, or the AssertionError of the first failing assert
check_types(controller, robot) ==
    IF ~Supports(controller.inputs_types, robot.inputs)
    THEN [err |-> "AssertionError: input", ret |-> None]
    ELSE IF ~Supports(controller.outputs_types, robot.outputs)
    THEN [err |-> "AssertionError: output", ret |-> None]
    ELSE [err |-> "ok", ret |-> Some(TRUE)]

(***************************************************************************)
(* Codec operations as steps                                               *)
(***************************************************************************)
Alphabet == {"D", "C", "H", "x", "4", "9"}

Codes == SeqsUpTo(Alphabet, MaxLen)

Visions == {1, 3, 4, DefaultVision}

Controls == {"random", "Tabular"}

\* what a caller may pass to the dataclass constructor
BuildDatas ==
    {[inputs |-> i, outputs |-> o, vision |-> v, control |-> c,
      control_data |-> <<>>] :
        i \in InputType, o \in OutputType, v \in Visions, c \in Controls}

TypeLists(T) ==
    {<<>>} \cup {<<t>> : t \in T} \cup {l \in T \X T : l[1] # l[2]}

\* controllers as seen through inputs_types(), outputs_types(), vision()
Controllers ==
    {[inputs_types |-> il, outputs_types |-> ol, vision |-> v] :
        il \in TypeLists(InputType), ol \in TypeLists(OutputType),
        v \in {None} \cup {Some(n) : n \in {4, 9}}}

\* Robot.BuildData(inputs, outputs, vision, control)
Construct(b) ==
    /\ bd' = Some(PostInit(b))
    /\ text' = <<>> /\ orig' = None /\ carg' = None /\ cret' = None
    /\ cop' = "BuildData" /\ cerr' = "ok"

\* s = bd.to_string()
ToStringCall ==
    /\ bd # None
    /\ text' = to_string(bd[1])
    /\ orig' = bd
    /\ cop' = "to_string" /\ cerr' = "ok" /\ cret' = None
    /\ UNCHANGED <<bd, carg>>

\* bd = Robot.BuildData.from_string(robot)
FromString(robot, src) ==
    LET r == from_string(robot)
    IN  /\ text' = robot
        /\ orig' = src
        /\ bd' = r.bd
        /\ cerr' = r.err
        /\ cop' = "from_string"
        /\ carg' = None /\ cret' = None

\* bd = Robot.BuildData.from_controller(c)
FromController(c) ==
    LET r == from_controller(c)
    IN  /\ bd' = r.bd
        /\ cerr' = r.err
        /\ cop' = "from_controller"
        /\ carg' = Some(c)
        /\ text' = <<>> /\ orig' = None /\ cret' = None

\* check_types(c, bd)
CheckTypes(c) ==
    /\ bd # None
    /\ cerr' = check_types(c, bd[1]).err
    /\ cret' = check_types(c, bd[1]).ret
    /\ cop' = "check_types"
    /\ carg' = Some(c)
    /\ UNCHANGED <<bd, text, orig>>

CodecConstruct ==
    \E b \in BuildDatas : Construct(b) /\ UNCHANGED <<kinVars, ctlVars>>

CodecToString == ToStringCall /\ UNCHANGED <<kinVars, ctlVars>>

CodecParse ==
    \E robot \in Codes : FromString(robot, None) /\ UNCHANGED <<kinVars, ctlVars>>

CodecRoundTrip ==
    /\ cop = "to_string"
    /\ FromString(text, orig)
    /\ UNCHANGED <<kinVars, ctlVars>>

CodecFromController ==
    \E c \in Controllers : FromController(c) /\ UNCHANGED <<kinVars, ctlVars>>

CodecCheckTypes ==
    \E c \in Controllers : CheckTypes(c) /\ UNCHANGED <<kinVars, ctlVars>>

(***************************************************************************)
(* Python values stored in infos, and json.dumps / json.loads              *)
(***************************************************************************)
PyStr(s) == [t |-> "str", v |-> s]
PyInt(s) == [t |-> "int", v |-> s]          \* v is the decimal text
PyNone == [t |-> "NoneType", v |-> "None"]

\* json.dumps turns every key into a JSON string: str as is, int as its
\* decimal text, None as "null"
JsonKey(key) == IF key.t = "NoneType" THEN "null" ELSE key.v

JsonValue(x) ==
    CASE x.t = "str" -> [j |-> "string", v |-> x.v]
      [] x.t = "int" -> [j |-> "number", v |-> x.v]
      [] OTHER -> [j |-> "null", v |-> "null"]

FromJson(x) ==
    CASE x.j = "string" -> PyStr(x.v)
      [] x.j = "number" -> PyInt(x.v)
      [] OTHER -> PyNone

\* json.dumps(d): the members of the JSON object, in the dict's order
json_dumps(d) == [k \in DOMAIN d |-> <<JsonKey(d[k][1]), JsonValue(d[k][2])>>]

\* json.loads(text): a repeated member name keeps its last value
RECURSIVE json_loads(_)
json_loads(js) ==
    IF Len(js) = 0 THEN <<>>
    ELSE DictSet(json_loads(SubSeq(js, 1, Len(js) - 1)),
                 PyStr(js[Len(js)][1]), FromJson(js[Len(js)][2]))

\* d.update(other) for a dict other
Update(d, other) ==
    LET RECURSIVE Go(_, _)
        Go(acc0, k) ==
            IF k > Len(other) THEN acc0
            ELSE Go(DictSet(acc0, other[k][1], other[k][2]), k + 1)
    IN  Go(d, 1)

(***************************************************************************)
(* Registry, controllers, archives                                         *)
(***************************************************************************)
\* CONTROLLERS as first defined
CONTROLLERS ==
    <<<<"random", "RandomController">>,
      <<"keyboard", "KeyboardController">>,
      <<"tabular", "TabularController">>>>

\* kinds registered from outside control.py
ExternalKinds == <<<<"sb3", "SB3Controller">>, <<"rnd", "RandomController">>>>

\* reverse_map = {t: n for n, t in CONTROLLERS.items()}
ReverseMap(reg) ==
    LET RECURSIVE Go(_, _)
        Go(m, k) ==
            IF k > Len(reg) THEN m
            ELSE Go(DictSet(m, reg[k][2], reg[k][1]), k + 1)
    IN  Go(<<>>, 1)

\* path.with_suffix(".zip") unless the suffix is ".zip" already
Normalized(path) ==
    IF path.suffix # ".zip" THEN [path EXCEPT !.suffix = ".zip"] ELSE path

FileName(path) == <<path.stem, path.suffix>>

Paths ==
    {[type |-> "Path", stem |-> "ctl", suffix |-> x] : x \in {".txt", ".zip"}}
        \cup {[type |-> "str", stem |-> "ctl", suffix |-> ".zip"]}

FileNames == {FileName(p) : p \in Paths}

\* the entry a kind's save_to_archive writes
PayloadEntry(cls) == IF cls = "SB3Controller" THEN "sb3.zip" ELSE "data"

\* the infos a controller may carry after construction
CtlInfos ==
    {<<>>,
     <<<<PyStr("inputs"), PyStr("CONTINUOUS")>>>>,
     <<<<PyStr("inputs"), PyStr("DISCRETE")>>,
       <<PyStr("outputs"), PyStr("DISCRETE")>>,
       <<PyStr("vision"), PyNone>>>>}

InfoKeys == {PyStr("inputs"), PyInt("1")}
InfoValues == {PyStr("DISCRETE"), PyInt("7")}

RECURSIVE DictsUpTo(_)
DictsUpTo(n) ==
    IF n = 0 THEN {<<>>}
    ELSE LET smaller == DictsUpTo(n - 1)
         IN  smaller \cup
             {Append(d, <<k, v>>) :
                 d \in {e \in smaller : Len(e) = n - 1},
                 k \in InfoKeys, v \in InfoValues}

\* the infos arguments of save(): None or a mapping
InfosArgs ==
    {None} \cup {Some(d) : d \in {e \in DictsUpTo(MaxInfoKeys) :
                                     Cardinality(DictKeys(e)) = Len(e)}}

Kinds == {"Random", "sb3", "rnd", "bogus"}

NewController(cls, infos) == [cls |-> cls, infos |-> infos, io |-> None]

\* SB3Controller.load_from_archive, on the archive's entries
SB3LoadFromArchive(archive, li) ==
    IF archive.infos = None THEN [err |-> "KeyError", c |-> None]
    ELSE LET infos == json_loads(archive.infos[1])
             names == {PyStr(n) : n \in InputType}
         IN  IF archive.payload # "sb3.zip" THEN [err |-> "KeyError", c |-> None]
             ELSE IF ~DictHas(infos, PyStr("inputs"))
                     \/ DictGet(infos, PyStr("inputs")) \notin names
                     \/ ~DictHas(infos, PyStr("outputs"))
                     \/ DictGet(infos, PyStr("outputs")) \notin names
                     \/ ~DictHas(infos, PyStr("vision"))
             THEN [err |-> "KeyError", c |-> None]
             ELSE [err |-> "ok",
                   c |-> Some([cls |-> "SB3Controller", infos |-> li,
                               io |-> Some([inputs |-> DictGet(infos, PyStr("inputs")).v,
                                            outputs |-> DictGet(infos, PyStr("outputs")).v,
                                            vision |-> DictGet(infos, PyStr("vision"))])])]

\* load_from_archive of the kinds defined outside these files
BaseLoadFromArchive(cls, archive, li) ==
    [err |-> "ok", c |-> Some(NewController(cls, li))]

LoadFromArchive(cls, archive, li) ==
    IF cls = "SB3Controller" THEN SB3LoadFromArchive(archive, li)
    ELSE BaseLoadFromArchive(cls, archive, li)

AttachInfos_kept(c, infos) == c

\* c.infos = json.loads(archive.read("infos").decode("utf-8"))
AttachInfos(c, infos) == [c EXCEPT !.infos = infos]

\* the infos SB3Controller.save passes on
SB3Infos(c) ==
    <<<<PyStr("algo"), PyStr("PPO")>>,
      <<PyStr("inputs"), PyStr(c.io[1].inputs)>>,
      <<PyStr("outputs"), PyStr(c.io[1].outputs)>>,
      <<PyStr("vision"), c.io[1].vision>>>>

\* _i_types_mapping, _o_types_mapping
i_types_mapping(dims) == IF dims = 1 THEN "DISCRETE" ELSE "CONTINUOUS"
o_types_mapping(space) == IF space = "Discrete" THEN "DISCRETE" ELSE "CONTINUOUS"

\* ---- operations ----
\* an extension adds its kind: CONTROLLERS[name] = cls
Register(kind) ==
    /\ ~DictHas(registry, kind[1])
    /\ registry' = DictSet(registry, kind[1], kind[2])
    /\ pop' = "register" /\ perr' = "ok" /\ pret' = None /\ parg' = None
    /\ UNCHANGED <<ctl, fs, built, saves, saved>>

\* controller_factory(c_type, c_data)
controller_factory(c_type, infos) ==
    /\ pop' = "controller_factory" /\ parg' = None
    /\ IF ~DictHas(registry, Lower(c_type))
       THEN /\ perr' = "KeyError" /\ pret' = None
            /\ UNCHANGED <<registry, ctl, fs, built, saves, saved>>
       ELSE /\ perr' = "ok"
            /\ ctl' = Some(NewController(DictGet(registry, Lower(c_type)), infos))
            /\ pret' = ctl'
            /\ built' = built + 1
            /\ UNCHANGED <<registry, fs, saves, saved>>

\* self._input_type: None until BaseController.__init__ was given a type
input_type(c) == IF c.io = None THEN None ELSE Some(c.io[1].inputs)

\* SB3Controller._setup_model: the arguments of BaseController.__init__ are
\* evaluated first, so the vision argument tests the input type the
\* controller had before this call; observation_space.shape[1] of a
\* one-dimensional shape is an IndexError, raised before anything is stored
SetupModel(dims, space, width) ==
    /\ ctl # None /\ ctl[1].cls = "SB3Controller"
    /\ pop' = "_setup_model" /\ pret' = None /\ parg' = None
    /\ IF input_type(ctl[1]) # Some("DISCRETE") /\ dims < 2
       THEN /\ perr' = "IndexError"
            /\ UNCHANGED <<registry, ctl, fs, built, saves, saved>>
       ELSE /\ perr' = "ok"
            /\ ctl' = Some([ctl[1] EXCEPT
                      !.io = Some([inputs |-> i_types_mapping(dims),
                                   outputs |-> o_types_mapping(space),
                                   vision |-> IF input_type(ctl[1]) = Some("DISCRETE")
                                              THEN PyNone ELSE PyInt(width)])])
            /\ UNCHANGED <<registry, fs, built, saves, saved>>

\* the body of save(controller, path, infos): the exception raised or "ok",
\* the value returned, the file system it leaves, whether an archive was
\* written
save_outcome(controller, path, infos) ==
    LET reverse_map == ReverseMap(registry)
        target == Normalized(path)
        partial == [controller_class |-> DictGet(reverse_map, controller.cls),
                    payload |-> PayloadEntry(controller.cls),
                    infos |-> None]
    IN  IF ~DictHas(reverse_map, controller.cls)
        THEN [err |-> "AssertionError", ret |-> None, fs |-> fs, wrote |-> FALSE]
        ELSE IF path.type # "Path"
        THEN [err |-> "AttributeError", ret |-> None, fs |-> fs, wrote |-> FALSE]
        ELSE IF infos = None
        THEN \* _infos.update(None) raises; the archive is closed as it is
             [err |-> "TypeError", ret |-> None,
              fs |-> [fs EXCEPT ![FileName(target)] = Some(partial)],
              wrote |-> TRUE]
        ELSE [err |-> "ok", ret |-> Some(target),
              fs |-> [fs EXCEPT ![FileName(target)] =
                        Some([partial EXCEPT !.infos =
                                Some(json_dumps(Update(controller.infos,
                                                       infos[1])))])],
              wrote |-> TRUE]

\* the state a call of save(controller, path, infos) leaves, but for the
\* value handed back to the caller
save_effects(controller, path, infos) ==
    LET r == save_outcome(controller, path, infos)
    IN  /\ pop' = "save" /\ parg' = Some([path |-> path, infos |-> infos])
        /\ perr' = r.err
        /\ fs' = r.fs
        /\ saved' = IF r.wrote THEN Some([controller |-> controller, infos |-> infos])
                    ELSE saved
        /\ saves' = IF r.wrote THEN saves + 1 ELSE saves
        /\ UNCHANGED <<registry, ctl, built>>

\* save(controller, path, infos)
save(controller, path, infos) ==
    /\ save_effects(controller, path, infos)
    /\ pret' = save_outcome(controller, path, infos).ret

\* SB3Controller.save(path): the infos are built from the controller's
\* types first; with the types unset, self._input_type.name is an
\* AttributeError and control.save is not entered.  The result of
\* control.save is dropped: the method returns None
sb3_save(controller, path) ==
    IF controller.io = None
    THEN /\ pop' = "save" /\ parg' = None
         /\ perr' = "AttributeError" /\ pret' = None
         /\ UNCHANGED <<registry, ctl, fs, built, saves, saved>>
    ELSE /\ save_effects(controller, path, Some(SB3Infos(controller)))
         /\ pret' = None

\* load(path); li is what the kind's load_from_archive leaves in infos
load(path, li) ==
    /\ pop' = "load" /\ parg' = Some([path |-> path, infos |-> None])
    /\ IF fs[FileName(path)] = None
       THEN /\ perr' = "FileNotFoundError" /\ pret' = None
            /\ UNCHANGED <<registry, ctl, fs, built, saves, saved>>
       ELSE LET archive == fs[FileName(path)][1]
                known == DictHas(registry, archive.controller_class)
                r == LoadFromArchive(DictGet(registry, archive.controller_class),
                                     archive, li)
            IN  IF ~known \/ r.err # "ok" \/ archive.infos = None
                THEN /\ perr' = "KeyError" /\ pret' = None
                     /\ UNCHANGED <<registry, ctl, fs, built, saves, saved>>
                ELSE /\ perr' = "ok"
                     /\ ctl' = Some(AttachInfos(r.c[1], json_loads(archive.infos[1])))
                     /\ pret' = ctl'
                     /\ UNCHANGED <<registry, fs, built, saves, saved>>

\* extensions are imported, and register their kinds, before any use
CtlRegister ==
    /\ built = 0
    /\ \E k \in DOMAIN ExternalKinds :
          /\ \A j \in 1..(k - 1) : DictHas(registry, ExternalKinds[j][1])
          /\ Register(ExternalKinds[k])
    /\ UNCHANGED <<codecVars, kinVars>>

CtlFactory ==
    /\ built < MaxBuilt
    /\ \E c_type \in Kinds, infos \in CtlInfos :
        controller_factory(c_type, infos) /\ UNCHANGED <<codecVars, kinVars>>

CtlSetupModel ==
    \E dims \in {1, 3} :
        SetupModel(dims, "Discrete", "9") /\ UNCHANGED <<codecVars, kinVars>>

CtlSave ==
    /\ ctl # None
    /\ saves < MaxSaves
    /\ \E path \in Paths, infos \in InfosArgs :
          save(ctl[1], path, infos) /\ UNCHANGED <<codecVars, kinVars>>

\* SB3Controller.save(path)
CtlSB3Save ==
    /\ ctl # None /\ ctl[1].cls = "SB3Controller"
    /\ saves < MaxSaves
    /\ \E path \in Paths :
          sb3_save(ctl[1], path) /\ UNCHANGED <<codecVars, kinVars>>

CtlLoad ==
    \E path \in Paths, li \in CtlInfos :
        load(path, li) /\ UNCHANGED <<codecVars, kinVars>>

(***************************************************************************)
(* Specifications                                                          *)
(***************************************************************************)
Init ==
    /\ bd = None /\ text = <<>> /\ orig = None
    /\ cop = "init" /\ cerr = "ok" /\ carg = None /\ cret = None
    /\ pos = None /\ prev_cell = None /\ vel = None /\ acc = None
    /\ reward = None
    /\ kret = None /\ kerr = "ok" /\ kop = "init" /\ calls = 0
    /\ run = NoRun
    /\ registry = CONTROLLERS /\ ctl = None
    /\ fs = [f \in FileNames |-> None]
    /\ pop = "init" /\ perr = "ok" /\ pret = None /\ parg = None
    /\ built = 0 /\ saves = 0
    /\ saved = None

CodecNext ==
    \/ CodecConstruct
    \/ CodecToString
    \/ CodecParse
    \/ CodecRoundTrip
    \/ CodecFromController

SpecCodec == Init /\ [][CodecNext]_vars

CheckNext == CodecConstruct \/ CodecFromController \/ CodecCheckTypes

SpecCheck == Init /\ [][CheckNext]_vars

KinNext == KinReset \/ KinStep

SpecKin == Init /\ [][KinNext]_vars

SustainedNext == KinReset \/ KinSustainedStep

SpecSustained == Init /\ [][SustainedNext]_vars

CtlNext ==
    \/ CtlRegister
    \/ CtlFactory
    \/ CtlSetupModel
    \/ CtlSave
    \/ CtlSB3Save
    \/ CtlLoad

SpecCtl == Init /\ [][CtlNext]_vars

(***************************************************************************)
(* Properties of the build-data codec                                      *)
(***************************************************************************)
IsDiscreteToContinuous(b) == b.inputs = "DISCRETE" /\ b.outputs = "CONTINUOUS"

IsOdd(n) == n % 2 = 1

\* a valid BuildData in the sense of the data model
ValidBuildData(b) ==
    /\ ~IsDiscreteToContinuous(b)
    /\ b.vision > 0 /\ IsOdd(b.vision)
    /\ b.inputs = "DISCRETE" => b.vision = DefaultVision

AllDigits(s, from) == \A k \in from..Len(s) : isdigit(s[k])

\* the three validation checks of the grammar
PassesValidation(s) ==
    /\ Len(s) >= 2
    /\ s[1] \in {"D", "C", "H"}
    /\ s[2] \in {"D", "C"} \/ isdigit(s[2])
    /\ AllDigits(s, 3)

\* one shorthand letter, optionally followed by digits
IsShorthandCode(s) ==
    /\ Len(s) >= 1
    /\ s[1] \in {"D", "C", "H"}
    /\ AllDigits(s, 2)

\* the explicit two-letter form emitted for b
IsExplicitCodeOf(s, b) ==
    /\ Len(s) >= 2
    /\ s[1] = (IF b.inputs = "DISCRETE" THEN "D" ELSE "C")
    /\ s[2] = (IF b.outputs = "DISCRETE" THEN "D" ELSE "C")
    /\ Len(s) > 2 <=> b.inputs = "CONTINUOUS"
    /\ Len(s) > 2 => AllDigits(s, 3) /\ ParseInt(SubSeq(s, 3, Len(s))) = b.vision

RoundTripDone == cop = "from_string" /\ orig # None /\ ValidBuildData(orig[1])

\* C1 as stated: for every valid BuildData b, from_string(b.to_string())
\* returns a BuildData equal to b, the code being the explicit two letters
\* followed by the vision digits iff inputs is CONTINUOUS.
C1_RoundTripEqual ==
    RoundTripDone =>
        /\ cerr = "ok"
        /\ bd = orig
        /\ IsExplicitCodeOf(text, orig[1])

\* C1 amended: for every valid BuildData b, from_string(b.to_string()) returns
\* a BuildData with b's inputs, outputs and vision and with control and
\* control_data at their defaults; the code is the explicit two letters
\* followed by the vision digits iff inputs is CONTINUOUS.
C1_RoundTripTypesAndVision ==
    RoundTripDone =>
        /\ cerr = "ok"
        /\ bd # None
        /\ bd[1].inputs = orig[1].inputs
        /\ bd[1].outputs = orig[1].outputs
        /\ bd[1].vision = orig[1].vision
        /\ bd[1].control = DefaultBuildData.control
        /\ bd[1].control_data = DefaultBuildData.control_data
        /\ (orig[1].control = DefaultBuildData.control
              /\ orig[1].control_data = DefaultBuildData.control_data) => bd = orig
        /\ IsExplicitCodeOf(text, orig[1])

C1_Witness ==
    /\ RoundTripDone
    /\ orig[1].inputs = "CONTINUOUS" /\ orig[1].outputs = "DISCRETE"
    /\ orig[1].vision = 3 /\ orig[1].control = "tabular"
    /\ text = <<"C", "D", "3">>
    /\ cerr = "ok" /\ bd[1].vision = 3

\* C2: a code of one shorthand letter optionally followed by odd digits decodes
\* to D -> (DISCRETE, DISCRETE), H -> (CONTINUOUS, DISCRETE), C -> (CONTINUOUS,
\* CONTINUOUS); with CONTINUOUS input and digits present, of any length, vision
\* is those digits; with no digits vision keeps its default.
C2_ShorthandDecoding ==
    (/\ cop = "from_string"
     /\ IsShorthandCode(text)
     /\ Len(text) > 1 => IsOdd(ParseInt(SubSeq(text, 2, Len(text)))))
    =>
        /\ cerr = "ok"
        /\ bd # None
        /\ bd[1].inputs = (IF text[1] = "D" THEN "DISCRETE" ELSE "CONTINUOUS")
        /\ bd[1].outputs = (IF text[1] = "C" THEN "CONTINUOUS" ELSE "DISCRETE")
        /\ (Len(text) > 1 /\ text[1] # "D")
              => bd[1].vision = ParseInt(SubSeq(text, 2, Len(text)))
        /\ Len(text) = 1 => bd[1].vision = DefaultVision

\* the input type a validated code decodes to is CONTINUOUS
DecodesToContinuousInput(s) ==
    \/ s[1] \in {"C", "H"} /\ isdigit(s[2])
    \/ s[1] = "C" /\ s[2] \in {"D", "C"}

TrailingDigits(s) == SubSeq(s, IF isdigit(s[2]) THEN 2 ELSE 3, Len(s))

\* C5: every code accepted by the validation checks whose decoded input type
\* is CONTINUOUS and whose trailing digits denote an even integer is rejected
\* with the even-vision error, and no BuildData is returned.
C5_EvenVisionRejected ==
    (/\ cop = "from_string"
     /\ PassesValidation(text)
     /\ DecodesToContinuousInput(text)
     /\ Len(TrailingDigits(text)) > 0
     /\ ~IsOdd(ParseInt(TrailingDigits(text))))
    => (cerr = "ValueError: even" /\ bd = None)

\* C6: from_string fails with the hybrid-mode error exactly when the decoded
\* pair is (DISCRETE input, CONTINUOUS output): "DC", with or without digits,
\* raises and returns nothing, "CD" succeeds with (CONTINUOUS, DISCRETE).
C6_HybridRejected ==
    cop = "from_string" =>
        /\ cerr = "ValueError: hybrid"
              <=> (PassesValidation(text) /\ text[1] = "D" /\ text[2] = "C")
        /\ cerr = "ValueError: hybrid" => bd = None
        /\ text = <<"C", "D">> =>
              /\ cerr = "ok"
              /\ bd[1].inputs = "CONTINUOUS" /\ bd[1].outputs = "DISCRETE"

C6_Witness ==
    /\ cop = "from_string"
    /\ text = <<"D", "C", "9">>
    /\ cerr = "ValueError: hybrid" /\ bd = None

\* C10: every BuildData returned by from_string, or by from_controller for a
\* controller reporting exactly one input type and one output type, is not the
\* pair (DISCRETE, CONTINUOUS) and has an odd vision.
C10_ConstructorsKeepInvariant ==
    (/\ cop \in {"from_string", "from_controller"}
     /\ cerr = "ok"
     /\ cop = "from_controller" =>
           Len(carg[1].inputs_types) = 1 /\ Len(carg[1].outputs_types) = 1)
    =>
        /\ bd # None
        /\ ~IsDiscreteToContinuous(bd[1])
        /\ IsOdd(bd[1].vision)

(***************************************************************************)
(* Properties of check_types                                               *)
(***************************************************************************)
CheckTypesOutcome ==
    cop = "check_types" =>
        LET fails == \/ bd[1].inputs \notin Range(carg[1].inputs_types)
                     \/ bd[1].outputs \notin Range(carg[1].outputs_types)
        IN  /\ fails => (cerr \in {"AssertionError: input", "AssertionError: output"}
                          /\ cret = None)
            /\ ~fails => (cerr = "ok" /\ cret = Some(TRUE))

\* C7: check_types fails with a compatibility error when the build data's
\* input type is not among the controller type's input types or its output
\* type is not among the output types, returns true otherwise, and either way
\* leaves the build data, the controller and the registry as they were.
C7_CheckTypes ==
    [][cop' = "check_types" =>
          /\ CheckTypesOutcome'
          /\ UNCHANGED <<bd, text, orig, registry, ctl, fs>>]_vars

C7_Witness ==
    /\ cop = "check_types"
    /\ bd[1].inputs \in Range(carg[1].inputs_types)
    /\ bd[1].outputs \notin Range(carg[1].outputs_types)
    /\ Len(carg[1].outputs_types) = 1
    /\ cerr = "AssertionError: output"

(***************************************************************************)
(* Properties of the kinematics                                            *)
(***************************************************************************)
Stepped == kop = "next_position" /\ kerr = "ok"

\* C8: after reset(p), through any sequence of next_position calls with
\* action (0, 0) and any dt, every call returns p and velocity and
\* acceleration stay zero; next_position never changes pos.
C8_RestIsFixedPoint ==
    Stepped =>
        /\ pos = run.pos0
        /\ run.allZero =>
              /\ kret = run.pos0
              /\ vel = Some(NullVec)
              /\ acc = Some(NullVec)

C8_Witness ==
    /\ Stepped /\ run.allZero /\ calls >= 2
    /\ run.first[1][2] = <<3, 1>>
    /\ kret = Some(<<<<7, 2>>, <<5, 4>>>>)

SustainedAction == run.first[1][1]
SustainedDt == run.first[1][2]

\* a sustained run: every call since reset used the same non-zero action and
\* the same dt, with 0 < INERTIAL_LOSS * dt < 1
Sustained ==
    /\ Stepped /\ run.same
    /\ SustainedAction # NullVec
    /\ RLt(Zero, RMul(INERTIAL_LOSS, SustainedDt))
    /\ RLt(RMul(INERTIAL_LOSS, SustainedDt), One)

\* (|action| * ACCELERATION_SCALE / INERTIAL_LOSS) ** 2
BalanceSq ==
    RMul(LengthSq(ScaledAction(SustainedAction)),
         <<INERTIAL_LOSS[2] * INERTIAL_LOSS[2], INERTIAL_LOSS[1] * INERTIAL_LOSS[1]>>)

SpeedGrowsBelowBalance ==
    /\ RLt(run.prev, LengthSq(vel[1]))
    /\ RLe(LengthSq(vel[1]), BalanceSq)

\* C9 as stated: in a sustained run from rest the speed increases from each
\* call to the next and never exceeds the balance value; the snap-to-zero
\* threshold does not keep the robot at rest.
C9_SustainedSpeedIncreases == Sustained => SpeedGrowsBelowBalance

\* the first step from rest is not snapped to zero:
\* dt * ACCELERATION_SCALE * |action| >= min(0.01, ACCELERATION_SCALE / 2)
FirstStepAboveThreshold ==
    ~BelowThreshold(Scale(SustainedDt, ScaledAction(SustainedAction)))

\* C9 amended: in a sustained run from rest whose first step reaches the
\* snap-to-zero threshold, the speed increases from each call to the next and
\* never exceeds the balance value; below that threshold the robot stays at
\* rest.
C9_SustainedAboveThreshold ==
    Sustained =>
        /\ FirstStepAboveThreshold => SpeedGrowsBelowBalance
        /\ ~FirstStepAboveThreshold => vel = Some(NullVec)

C9_Witness ==
    /\ Sustained /\ FirstStepAboveThreshold /\ calls >= 4
    /\ SustainedDt = <<1, 2>>
    /\ SustainedAction = <<One, One>>

(***************************************************************************)
(* Properties of save and load                                             *)
(***************************************************************************)
Registered(cls) == \E k \in DOMAIN registry : registry[k][2] = cls

\* C3: for a controller of a registered kind, save(x, path) with infos omitted
\* completes, and load of the returned path yields a controller of exactly
\* x's class.
C3_KindRoundTrip ==
    /\ (/\ pop = "save" /\ parg # None
        /\ parg[1].infos = None /\ parg[1].path.type = "Path"
        /\ Registered(ctl[1].cls))
       => (/\ perr = "ok"
           /\ pret = Some(Normalized(parg[1].path))
           /\ fs[FileName(pret[1])] # None)
    /\ (pop = "load" /\ perr = "ok")
       => ctl[1].cls = saved[1].controller.cls

OwnInfos == saved[1].controller.infos
CallerInfos == saved[1].infos[1]

Loaded == pop = "load" /\ perr = "ok"

\* every key of i carries i's value, every key only in m carries m's value,
\* and there are no other keys
IsOverride(l, m, i) ==
    /\ DictKeys(l) = DictKeys(m) \cup DictKeys(i)
    /\ \A key \in DictKeys(i) : DictGet(l, key) = DictGet(i, key)
    /\ \A key \in DictKeys(m) \ DictKeys(i) : DictGet(l, key) = DictGet(m, key)

\* C4 as stated: after save(c, path, i) and load(path), the loaded
\* controller's infos is c.infos shallow-overridden by i, for every mapping i.
C4_InfosPreserved == Loaded => IsOverride(ctl[1].infos, OwnInfos, CallerInfos)

StrKeys(d) == \A key \in DictKeys(d) : key.t = "str"

\* C4 amended: after save(c, path, i) and load(path), where the keys of
\* c.infos and of i are strings, the loaded controller's infos is c.infos
\* shallow-overridden by i, whatever the kind's load_from_archive set.
C4_InfosPreservedStrKeys ==
    (Loaded /\ StrKeys(OwnInfos) /\ StrKeys(CallerInfos))
        => IsOverride(ctl[1].infos, OwnInfos, CallerInfos)

C4_Witness ==
    /\ Loaded
    /\ OwnInfos = <<<<PyStr("inputs"), PyStr("CONTINUOUS")>>>>
    /\ CallerInfos = <<<<PyStr("inputs"), PyStr("DISCRETE")>>>>
    /\ ctl[1].infos = CallerInfos
====
